---- MODULE Spec2Model ----
(***************************************************************************)
(* Model of the statistical analysis engine of gene_expression_analysis:   *)
(*   src/gene_expression_data.py  GeneExpressionData  (the dataset)        *)
(*   src/statistical_analysis.py  StatisticalAnalysis (the engine)         *)
(*                                                                         *)
(* Numbers.  Expression values are integers counted in ten-thousandths     *)
(* (1000 is 0.1), so that round(value, 3) is a real operation.  Means and  *)
(* differentials are exact fractions [num, den] in lowest terms, in the    *)
(* same unit; percentages are integers counted in thousandths of a         *)
(* percent.  Binary floating point rounding is not modelled.               *)
(*                                                                         *)
(* Python dictionaries are functions (DOMAIN = key set); lists and tuples  *)
(* are sequences.  A set is iterated in an order the language does not     *)
(* fix: a call records the order its set has in call.order, and within one *)
(* run of the program the same set built the same way has the same order.  *)
(***************************************************************************)
EXTENDS Integers, Sequences, FiniteSets, TLC

VARIABLES
    gene_names,              \* GeneExpressionData.gene_names (the catalog)
    gene_expression_values,  \* GeneExpressionData.gene_expression_values
    pc,                      \* where the caller / the running method is
    call,                    \* the engine call in progress or just finished
    result,                  \* what the finished call returned or raised
    heap,                    \* top_n_differential: local heap
    idx,                     \* top_n_differential: genes already streamed
    todo,                    \* expression_above_threshold: names still to validate, in order
    genes_to_iterate,        \* expression_above_threshold: local dictionary
    kept                     \* the caller's note of one earlier call and its result

vars == <<gene_names, gene_expression_values, pc, call, result,
          heap, idx, todo, genes_to_iterate, kept>>

(***************************************************************************)
(* Bounds of the model                                                     *)
(***************************************************************************)
MaxRows == 2      \* data rows of the file
MaxReq == 2       \* gene names in one request

GeneUniverse == {"G1", "G2"}              \* names a header may hold (Spec)
WideUniverse == {"G1", "G2", "G3"}        \* names a header may hold (SpecTopN)
SmallUniverse == {"G1"}                   \* names a header may hold (SpecTwice)
RequestNames == {"G1", "G2", "GX"}        \* names a caller may ask for
Statuses == {"normal", "HCC"}
Values == {1000, 3004}                    \* 0.1 and 0.3004
Thresholds == {500, 1000}                 \* 0.05 and 0.1

\* Python's order on the gene names used (str.__lt__), as ranks.
NameRank(name) ==
    CASE name = "G1" -> 1
      [] name = "G2" -> 2
      [] name = "G3" -> 3
      [] OTHER -> 4

NameLess(a, b) == NameRank(a) < NameRank(b)

(***************************************************************************)
(* Generic helpers                                                         *)
(***************************************************************************)
Range(s) == {s[i] : i \in DOMAIN s}

\* Sequences over S without repetition, of length at most k.
InjSeqs(S, k) ==
    UNION {{s \in [1..m -> S] : \A i, j \in 1..m : i # j => s[i] # s[j]} : m \in 0..k}

\* The orders in which a Python set may be iterated.
Orders(S) == {s \in [1..Cardinality(S) -> S] : Range(s) = S}

SeqsUpTo(S, k) == UNION {[1..m -> S] : m \in 0..k}

Abs(x) == IF x < 0 THEN -x ELSE x

RECURSIVE GCD(_, _)
GCD(a, b) == IF b = 0 THEN a ELSE GCD(b, a % b)

RECURSIVE Sum(_)
Sum(s) == IF s = <<>> THEN 0 ELSE Head(s) + Sum(Tail(s))

\* Exact fractions in lowest terms, den > 0.
Frac(n, d) ==
    LET g == GCD(Abs(n), d)
    IN  [num |-> n \div g, den |-> d \div g]

FracSub(a, b) == Frac(a.num * b.den - b.num * a.den, a.den * b.den)
FracLess(a, b) == a.num * b.den < b.num * a.den
FracAbs(a) == [num |-> Abs(a.num), den |-> a.den]

\* statistics.mean of a non-empty list
mean(xs) == Frac(Sum(xs), Len(xs))

(***************************************************************************)
(* The dataset: GeneExpressionData                                         *)
(***************************************************************************)
\* dict lookup on the defaultdict(list): a missing key reads as [] ...
Series(gev, gene) == IF gene \in DOMAIN gev THEN gev[gene] ELSE <<>>

\* ... and the read inserts the missing keys.
Touch(gev, genes) ==
    [g \in (DOMAIN gev) \cup genes |-> Series(gev, g)]

\* load_data (lines 49-65): the header names `catalog`; row i holds the sample
\* name i, a status and its values, which zip() pairs with the leading genes
\* of the catalog, so a short row gives the trailing genes nothing.  A gene
\* gets a key when a first value is appended for it.
Loaded(catalog, rows) ==
    LET Col(g) == CHOOSE j \in 1..Len(catalog) : catalog[j] = g
        RowsOf(j) == SelectSeq([i \in 1..Len(rows) |-> i],
                               LAMBDA i : Len(rows[i].values) >= j)
    IN  [g \in {catalog[j] : j \in {k \in 1..Len(catalog) : RowsOf(k) # <<>>}} |->
            [n \in 1..Len(RowsOf(Col(g))) |->
                LET i == RowsOf(Col(g))[n]
                IN  <<i, rows[i].status, rows[i].values[Col(g)]>>]]

NoCall == [op |-> "none"]
NoResult == [kind |-> "none"]

Init ==
    /\ gene_names = <<>>
    /\ gene_expression_values = [g \in {} |-> <<>>]
    /\ pc = "new"
    /\ call = NoCall
    /\ result = NoResult
    /\ heap = <<>>
    /\ idx = 0
    /\ todo = <<>>
    /\ genes_to_iterate = [g \in {} |-> <<>>]
    /\ kept = [call |-> NoCall, result |-> NoResult]

Load(universe) ==
    /\ pc = "new"
    /\ \E catalog \in InjSeqs(universe, Cardinality(universe)) :
       \E rows \in SeqsUpTo([status : Statuses,
                              values : SeqsUpTo(Values, Len(catalog))], MaxRows) :
          /\ gene_names' = catalog
          /\ gene_expression_values' = Loaded(catalog, rows)
    /\ pc' = "idle"
    /\ UNCHANGED <<call, result, heap, idx, todo, genes_to_iterate, kept>>

load_data == Load(GeneUniverse)

\* the same method on a file of up to three genes
load_wide == Load(WideUniverse)

\* the same method on a file of at most one gene
load_small == Load(SmallUniverse)

(***************************************************************************)
(* The engine: StatisticalAnalysis                                         *)
(***************************************************************************)
\* _validate_input: does the name pass?
_validate_input(gene) == gene \in Range(gene_names)

\* The returned text 'There was an error: <gene> Doesn't Exist! ...'
NoGeneName(gene) == [kind |-> "NoGeneName", gene |-> gene]

Sentinel == [isnum |-> FALSE, num |-> 0, den |-> 1]
Numeric(f) == [isnum |-> TRUE, num |-> f.num, den |-> f.den]

StatusValues(samples, status) ==
    LET picked == SelectSeq(samples, LAMBDA rec : rec[2] = status)
    IN  [i \in 1..Len(picked) |-> picked[i][3]]

\* Variant: the two means subtracted the other way round.
GeneDifferentialSwapped(samples) ==
    LET normal == StatusValues(samples, "normal")
        hcc == StatusValues(samples, "HCC")
    IN  IF normal # <<>> /\ hcc # <<>>
        THEN Numeric(FracSub(mean(normal), mean(hcc)))
        ELSE Sentinel

\* calculate_differential, body of the per-gene loop
GeneDifferential(samples) ==
    LET normal == StatusValues(samples, "normal")
        hcc == StatusValues(samples, "HCC")
    IN  IF normal # <<>> /\ hcc # <<>>
        THEN Numeric(FracSub(mean(hcc), mean(normal)))
        ELSE Sentinel

\* Variant: only the first requested name is validated.
calculate_differential_first_only(gev, genes) ==
    IF genes # <<>> /\ ~_validate_input(genes[1])
    THEN NoGeneName(genes[1])
    ELSE [kind |-> "ok",
          value |-> [g \in Range(genes) |-> GeneDifferential(Series(gev, g))]]

\* Variant: the last requested name gets no entry unless it occurs earlier.
calculate_differential_drop_last(gev, genes) ==
    IF \E i \in 1..Len(genes) : ~_validate_input(genes[i])
    THEN NoGeneName(genes[CHOOSE i \in 1..Len(genes) :
                            /\ ~_validate_input(genes[i])
                            /\ \A j \in 1..(i - 1) : _validate_input(genes[j])])
    ELSE [kind |-> "ok",
          value |-> [g \in {genes[i] : i \in 1..(Len(genes) - 1)} |->
                        GeneDifferential(Series(gev, g))]]

\* calculate_differential(*genes): what it returns
calculate_differential(gev, genes) ==
    IF \E i \in 1..Len(genes) : ~_validate_input(genes[i])
    THEN NoGeneName(genes[CHOOSE i \in 1..Len(genes) :
                            /\ ~_validate_input(genes[i])
                            /\ \A j \in 1..(i - 1) : _validate_input(genes[j])])
    ELSE [kind |-> "ok",
          value |-> [g \in Range(genes) |-> GeneDifferential(Series(gev, g))]]

\* calculate_differential(*genes): the dataset after the call
DifferentialTouch(gev, genes) ==
    IF \E i \in 1..Len(genes) : ~_validate_input(genes[i])
    THEN gev
    ELSE Touch(gev, Range(genes))

\* a method's locals are gone when it is over
Idle ==
    /\ heap' = <<>>
    /\ idx' = 0
    /\ todo' = <<>>
    /\ genes_to_iterate' = [g \in {} |-> <<>>]

CallDifferential ==
    /\ pc = "idle"
    /\ \E genes \in SeqsUpTo(RequestNames, MaxReq) :
          /\ call' = [op |-> "calculate_differential", genes |-> genes]
          /\ result' = calculate_differential(gene_expression_values, genes)
          /\ gene_expression_values' = DifferentialTouch(gene_expression_values, genes)
    /\ pc' = "done"
    /\ UNCHANGED <<gene_names, kept>>
    /\ Idle

(***************************************************************************)
(* calculate_statistics                                                    *)
(***************************************************************************)
\* sorted(xs) for numbers
RECURSIVE InsertAsc(_, _)
InsertAsc(x, s) ==
    IF s = <<>> THEN <<x>>
    ELSE IF x < Head(s) THEN <<x>> \o s
    ELSE <<Head(s)>> \o InsertAsc(x, Tail(s))

RECURSIVE SortAsc(_)
SortAsc(s) == IF s = <<>> THEN <<>> ELSE InsertAsc(Head(s), SortAsc(Tail(s)))

\* statistics.median of a non-empty list
median(xs) ==
    LET s == SortAsc(xs)
        n == Len(s)
    IN  IF n % 2 = 1 THEN Frac(s[(n + 1) \div 2], 1)
        ELSE Frac(s[n \div 2] + s[n \div 2 + 1], 2)

\* statistics.stdev of a list of at least two values, given by its square
\* (the sample variance, N-1 denominator).
stdev(xs) ==
    LET n == Len(xs)
        sq == [i \in 1..n |-> xs[i] * xs[i]]
    IN  Frac(n * Sum(sq) - Sum(xs) * Sum(xs), n * (n - 1))

ExpValues(samples) == [i \in 1..Len(samples) |-> samples[i][3]]

\* Variant: a single observation is accepted and given the deviation 0.
RECURSIVE StatsLoopLenient(_, _, _, _)
StatsLoopLenient(gev, order, i, gene_stats) ==
    IF i > Len(order)
    THEN [result |-> [kind |-> "ok", value |-> gene_stats], gev |-> gev]
    ELSE LET gene == order[i]
             exp_values == ExpValues(Series(gev, gene))
             touched == Touch(gev, {gene})
         IN  IF Len(exp_values) < 1
             THEN [result |-> [kind |-> "StatisticsError"], gev |-> touched]
             ELSE StatsLoopLenient(touched, order, i + 1,
                      gene_stats @@ (gene :> [mean |-> mean(exp_values),
                                              stdev |-> IF Len(exp_values) < 2
                                                        THEN Frac(0, 1)
                                                        ELSE stdev(exp_values),
                                              median |-> median(exp_values)]))

\* The loop of lines 84-89 over the genes in iteration order `order`, from
\* position i on; mean raises StatisticsError on no value, stdev on fewer than
\* two.  Every lookup inserts a missing key, also the one before the raise.
RECURSIVE StatsLoop(_, _, _, _)
StatsLoop(gev, order, i, gene_stats) ==
    IF i > Len(order)
    THEN [result |-> [kind |-> "ok", value |-> gene_stats], gev |-> gev]
    ELSE LET gene == order[i]
             exp_values == ExpValues(Series(gev, gene))
             touched == Touch(gev, {gene})
         IN  IF Len(exp_values) < 2
             THEN [result |-> [kind |-> "StatisticsError"], gev |-> touched]
             ELSE StatsLoop(touched, order, i + 1,
                            gene_stats @@ (gene :> [mean |-> mean(exp_values),
                                                    stdev |-> stdev(exp_values),
                                                    median |-> median(exp_values)]))

\* calculate_statistics(*genes) with set(genes) iterated in `order`
calculate_statistics(gev, order) ==
    IF \E i \in 1..Len(order) : ~_validate_input(order[i])
    THEN [result |-> NoGeneName(order[CHOOSE i \in 1..Len(order) :
                                        /\ ~_validate_input(order[i])
                                        /\ \A j \in 1..(i - 1) : _validate_input(order[j])]),
          gev |-> gev]
    ELSE StatsLoop(gev, order, 1, [g \in {} |-> 0])

CallStatistics ==
    /\ pc = "idle"
    /\ \E genes \in SeqsUpTo(RequestNames, MaxReq) :
       \E order \in Orders(Range(genes)) :
          LET out == calculate_statistics(gene_expression_values, order)
          IN  /\ call' = [op |-> "calculate_statistics", genes |-> genes,
                           order |-> order]
              /\ result' = out.result
              /\ gene_expression_values' = out.gev
    /\ pc' = "done"
    /\ UNCHANGED <<gene_names, kept>>
    /\ Idle

(***************************************************************************)
(* top_n_differential                                                      *)
(***************************************************************************)
\* Variant: heap entries are compared by their value alone, so that among
\* equal values the order of insertion decides.
ItemLessByValue(a, b) == FracLess(a[1], b[1])

\* Heap entries are the tuples (diff_val, gene_name); Python compares them
\* left to right.
ItemLess(a, b) ==
    \/ FracLess(a[1], b[1])
    \/ a[1] = b[1] /\ NameLess(a[2], b[2])

\* list positions count from 0 as in heapq
At(h, pos) == h[pos + 1]
Put(h, pos, item) == [h EXCEPT ![pos + 1] = item]

\* heapq._siftdown
RECURSIVE _siftdown(_, _, _, _)
_siftdown(h, startpos, pos, newitem) ==
    IF pos > startpos
    THEN LET parentpos == (pos - 1) \div 2
             parent == At(h, parentpos)
         IN  IF ItemLess(newitem, parent)
             THEN _siftdown(Put(h, pos, parent), startpos, parentpos, newitem)
             ELSE Put(h, pos, newitem)
    ELSE Put(h, pos, newitem)

\* heapq._siftup
RECURSIVE _siftup(_, _, _, _)
_siftup(h, startpos, pos, newitem) ==
    LET endpos == Len(h)
        childpos == 2 * pos + 1
        rightpos == childpos + 1
    IN  IF childpos < endpos
        THEN LET c == IF rightpos < endpos /\ ~ItemLess(At(h, childpos), At(h, rightpos))
                      THEN rightpos ELSE childpos
             IN  _siftup(Put(h, pos, At(h, c)), startpos, c, newitem)
        ELSE _siftdown(Put(h, pos, newitem), startpos, pos, newitem)

\* heapq.heappush
heappush(h, item) == _siftdown(Append(h, item), 0, Len(h), item)

\* heapq.heapreplace on a non-empty heap
heapreplace(h, item) == _siftup(Put(h, 0, item), 0, 0, item)

\* sorted(heap, reverse=True, key=lambda x: x[0]): stable, so entries of equal
\* key keep the order they have in the heap list.
RECURSIVE InsertDesc(_, _)
InsertDesc(x, s) ==
    IF s = <<>> THEN <<x>>
    ELSE IF FracLess(Head(s)[1], x[1]) THEN <<x>> \o s
    ELSE <<Head(s)>> \o InsertDesc(x, Tail(s))

\* Variant: the heap list is returned as it stands.
Unsorted(h) == h

RECURSIVE SortedDesc(_)
SortedDesc(h) ==
    IF h = <<>> THEN <<>>
    ELSE InsertDesc(h[Len(h)], SortedDesc(SubSeq(h, 1, Len(h) - 1)))

\* heap = [] and the generator is created (lines 165-166)
CallTopN ==
    /\ pc = "idle"
    /\ \E n \in 0..(Len(gene_names) + 1) : call' = [op |-> "top_n_differential", n |-> n]
    /\ pc' = "top_n"
    /\ heap' = <<>>
    /\ idx' = 0
    /\ UNCHANGED <<gene_names, gene_expression_values, result, todo, genes_to_iterate, kept>>

\* One turn of the loop of lines 168-193: the generator yields
\* calculate_differential(gene) for the next catalog gene.
TopNStep ==
    /\ pc = "top_n"
    /\ idx < Len(gene_names)
    /\ LET gene == gene_names[idx + 1]
           gene_diff == calculate_differential(gene_expression_values, <<gene>>)
           d == gene_diff.value[gene]
           diff_val == FracAbs(d)
           n == call.n
       IN  /\ gene_expression_values' = DifferentialTouch(gene_expression_values, <<gene>>)
           /\ IF ~d.isnum
              THEN \* abs() of the text raises TypeError
                   /\ result' = [kind |-> "TypeError"]
                   /\ pc' = "done"
                   /\ Idle
              ELSE IF Len(heap) < n
              THEN /\ heap' = heappush(heap, <<diff_val, gene>>)
                   /\ idx' = idx + 1
                   /\ UNCHANGED <<pc, result, todo, genes_to_iterate>>
              ELSE IF heap = <<>>
              THEN \* heap[0] of the empty list raises IndexError
                   /\ result' = [kind |-> "IndexError"]
                   /\ pc' = "done"
                   /\ Idle
              ELSE IF FracLess(At(heap, 0)[1], diff_val)
              THEN /\ heap' = heapreplace(heap, <<diff_val, gene>>)
                   /\ idx' = idx + 1
                   /\ UNCHANGED <<pc, result, todo, genes_to_iterate>>
              ELSE /\ idx' = idx + 1
                   /\ UNCHANGED <<pc, result, heap, todo, genes_to_iterate>>
    /\ UNCHANGED <<gene_names, call, kept>>

\* The generator is exhausted: line 196.
TopNReturn ==
    /\ pc = "top_n"
    /\ idx = Len(gene_names)
    /\ result' = [kind |-> "ok", value |-> SortedDesc(heap)]
    /\ pc' = "done"
    /\ UNCHANGED <<gene_names, gene_expression_values, call, kept>>
    /\ Idle

(***************************************************************************)
(* expression_above_threshold                                              *)
(***************************************************************************)
\* n / d rounded to the nearest integer, ties to even (n >= 0, d > 0)
RoundDiv(n, d) ==
    LET q == n \div d
        r == n % d
    IN  IF 2 * r > d \/ (2 * r = d /\ q % 2 = 1) THEN q + 1 ELSE q

\* round(value, 3) of a value counted in ten-thousandths
Round3(value) == 10 * RoundDiv(value, 10)

Marker == [empty |-> TRUE]     \* 'No expressions above the threshold.'

\* Variant: a value equal to the threshold is retained too.
GeneAboveOrEqual(samples, threshold) ==
    LET above == SelectSeq(samples, LAMBDA rec : rec[3] >= threshold)
        info == [i \in 1..Len(above) |-> <<above[i][1], above[i][2], Round3(above[i][3])>>]
        total == Len(above)
        hcc_count == Len(SelectSeq(above, LAMBDA rec : rec[2] = "HCC"))
    IN  IF total # 0
        THEN [empty |-> FALSE, info |-> info,
              hcc_percentage |-> RoundDiv(hcc_count * 100000, total)]
        ELSE Marker

\* Variant: the marker is never produced; a gene with no match gets the
\* structure with an empty list.
GeneAboveNoMarker(samples, threshold) ==
    LET above == SelectSeq(samples, LAMBDA rec : rec[3] > threshold)
        info == [i \in 1..Len(above) |-> <<above[i][1], above[i][2], Round3(above[i][3])>>]
        total == Len(above)
        hcc_count == Len(SelectSeq(above, LAMBDA rec : rec[2] = "HCC"))
    IN  [empty |-> FALSE, info |-> info,
         hcc_percentage |-> IF total # 0 THEN RoundDiv(hcc_count * 100000, total) ELSE 0]

\* Variant: the percentage counts the normal matches.
GeneAbovePercentNormal(samples, threshold) ==
    LET above == SelectSeq(samples, LAMBDA rec : rec[3] > threshold)
        info == [i \in 1..Len(above) |-> <<above[i][1], above[i][2], Round3(above[i][3])>>]
        total == Len(above)
        normal_count == Len(SelectSeq(above, LAMBDA rec : rec[2] = "normal"))
    IN  IF total # 0
        THEN [empty |-> FALSE, info |-> info,
              hcc_percentage |-> RoundDiv(normal_count * 100000, total)]
        ELSE Marker

\* Lines 248-266 for one gene
GeneAbove(samples, threshold) ==
    LET above == SelectSeq(samples, LAMBDA rec : rec[3] > threshold)
        info == [i \in 1..Len(above) |-> <<above[i][1], above[i][2], Round3(above[i][3])>>]
        total == Len(above)
        hcc_count == Len(SelectSeq(above, LAMBDA rec : rec[2] = "HCC"))
    IN  IF total # 0
        THEN [empty |-> FALSE, info |-> info,
              \* round(hcc_count/total*100, 3), in thousandths of a percent
              hcc_percentage |-> RoundDiv(hcc_count * 100000, total)]
        ELSE Marker

\* Lines 246-268
AboveThreshold(gti, threshold) ==
    [kind |-> "ok", value |-> [g \in DOMAIN gti |-> GeneAbove(gti[g], threshold)]]

\* Lines 213-216 and 239-242: the set is built; without names the dictionary
\* of the dataset itself is what the method iterates.
CallThreshold ==
    /\ pc = "idle"
    /\ \E threshold \in Thresholds :
       \E names \in SeqsUpTo(RequestNames, MaxReq) :
       \E order \in Orders(Range(names)) :
          /\ call' = [op |-> "expression_above_threshold",
                      threshold |-> threshold, gene_names |-> names,
                      order |-> order]
          /\ todo' = order
          /\ genes_to_iterate' = IF Range(names) = {}
                                 THEN gene_expression_values
                                 ELSE [g \in {} |-> <<>>]
    /\ pc' = "above"
    /\ UNCHANGED <<gene_names, gene_expression_values, result, heap, idx, kept>>

\* Variant: only the first name the set yields is validated.
ThresholdValidateFirstOnly ==
    /\ pc = "above"
    /\ todo # <<>>
    /\ LET gene_name == Head(todo)
       IN IF ~_validate_input(gene_name)
          THEN /\ result' = NoGeneName(gene_name)
               /\ pc' = "done"
               /\ Idle
               /\ UNCHANGED gene_expression_values
          ELSE LET names == Range(call.gene_names)
               IN  /\ genes_to_iterate' =
                          [g \in names |-> Series(gene_expression_values, g)]
                   /\ gene_expression_values' = Touch(gene_expression_values, names)
                   /\ todo' = <<>>
                   /\ UNCHANGED <<pc, result, heap, idx>>
    /\ UNCHANGED <<gene_names, call, kept>>

\* One turn of the loop of lines 230-235: the name is validated, then the
\* dictionary is built over ALL the requested names (the comprehension is
\* inside the loop), each lookup inserting a missing key.
ThresholdValidate ==
    /\ pc = "above"
    /\ todo # <<>>
    /\ LET gene_name == Head(todo)
       IN IF ~_validate_input(gene_name)
          THEN /\ result' = NoGeneName(gene_name)
               /\ pc' = "done"
               /\ Idle
               /\ UNCHANGED gene_expression_values
          ELSE LET names == Range(call.gene_names)
               IN  /\ genes_to_iterate' =
                          [g \in names |-> Series(gene_expression_values, g)]
                   /\ gene_expression_values' = Touch(gene_expression_values, names)
                   /\ todo' = Tail(todo)
                   /\ UNCHANGED <<pc, result, heap, idx>>
    /\ UNCHANGED <<gene_names, call, kept>>

\* Lines 246-268 once the names are through
ThresholdCompute ==
    /\ pc = "above"
    /\ todo = <<>>
    /\ result' = AboveThreshold(genes_to_iterate, call.threshold)
    /\ pc' = "done"
    /\ UNCHANGED <<gene_names, gene_expression_values, call, kept>>
    /\ Idle

\* The caller takes the result; the engine keeps nothing of the call.
Return ==
    /\ pc = "done"
    /\ pc' = "idle"
    /\ call' = NoCall
    /\ result' = NoResult
    /\ UNCHANGED <<gene_names, gene_expression_values, kept>>
    /\ Idle

\* The caller takes the result and notes the call and what it returned, once.
ReturnKeeping ==
    /\ pc = "done"
    /\ kept.call = NoCall
    /\ kept' = [call |-> call, result |-> result]
    /\ pc' = "idle"
    /\ call' = NoCall
    /\ result' = NoResult
    /\ UNCHANGED <<gene_names, gene_expression_values>>
    /\ Idle

Next ==
    \/ load_data
    \/ CallStatistics
    \/ CallDifferential
    \/ CallTopN
    \/ TopNStep
    \/ TopNReturn
    \/ CallThreshold
    \/ ThresholdValidate
    \/ ThresholdCompute
    \/ Return

Spec == Init /\ [][Next]_vars

\* top_n_differential alone, on the wider files
NextTopN ==
    \/ load_wide
    \/ CallTopN
    \/ TopNStep
    \/ TopNReturn
    \/ Return

SpecTopN == Init /\ [][NextTopN]_vars

\* the whole engine on the files of one gene, the caller comparing a later
\* call with an earlier one
NextTwice ==
    \/ load_small
    \/ CallStatistics
    \/ CallDifferential
    \/ CallTopN
    \/ TopNStep
    \/ TopNReturn
    \/ CallThreshold
    \/ ThresholdValidate
    \/ ThresholdCompute
    \/ Return
    \/ ReturnKeeping

SpecTwice == Init /\ [][NextTwice]_vars

(***************************************************************************)
(* Properties                                                              *)
(***************************************************************************)
InCatalog(gene) == \E i \in 1..Len(gene_names) : gene_names[i] = gene

Finished(op) == pc = "done" /\ call.op = op

\* Every catalog gene has at least one sample: the file had data rows wide
\* enough for every gene.  (Reads only ever add keys with no sample.)
EveryGeneHasSamples ==
    \A i \in 1..Len(gene_names) : Series(gene_expression_values, gene_names[i]) # <<>>

RECURSIVE CountStatus(_, _)
CountStatus(samples, status) ==
    IF samples = <<>> THEN 0
    ELSE (IF Head(samples)[2] = status THEN 1 ELSE 0) + CountStatus(Tail(samples), status)

RECURSIVE SumStatus(_, _)
SumStatus(samples, status) ==
    IF samples = <<>> THEN 0
    ELSE (IF Head(samples)[2] = status THEN Head(samples)[3] ELSE 0)
         + SumStatus(Tail(samples), status)

\* C1: calculate_statistics and calculate_differential asked for at least one
\* name that is not in the catalog fail with the unknown-gene outcome, naming
\* such a name, and return no per-gene mapping, wherever the name stands in
\* the request and however many valid names accompany it.
C1_UnknownGeneFailsBatch ==
    (/\ pc = "done"
     /\ call.op \in {"calculate_statistics", "calculate_differential"}
     /\ \E i \in 1..Len(call.genes) : ~InCatalog(call.genes[i]))
    => (/\ result.kind = "NoGeneName"
        /\ ~InCatalog(result.gene)
        /\ \E i \in 1..Len(call.genes) : call.genes[i] = result.gene)

\* C1 witness: on a dataset with samples, a differential request of a valid
\* name followed by an unknown one has failed.
C1_Witness ==
    /\ Finished("calculate_differential")
    /\ Len(call.genes) = 2
    /\ InCatalog(call.genes[1])
    /\ ~InCatalog(call.genes[2])
    /\ gene_expression_values # <<>>
    /\ result.kind = "NoGeneName"

\* C2: in a calculate_differential batch of valid names every requested gene
\* gets its own outcome: the sentinel exactly when its normal or its HCC
\* group is empty, otherwise mean(HCC) - mean(normal); the call never raises.
C2_DifferentialPerGene ==
    (/\ Finished("calculate_differential")
     /\ \A i \in 1..Len(call.genes) : InCatalog(call.genes[i]))
    => (/\ result.kind = "ok"
        /\ DOMAIN result.value = Range(call.genes)
        /\ \A g \in Range(call.genes) :
              LET samples == Series(gene_expression_values, g)
                  nN == CountStatus(samples, "normal")
                  nH == CountStatus(samples, "HCC")
                  d == result.value[g]
              IN  /\ d.isnum <=> (nN > 0 /\ nH > 0)
                  /\ d.isnum =>
                        d.num * nH * nN =
                        d.den * (SumStatus(samples, "HCC") * nN
                                 - SumStatus(samples, "normal") * nH))

\* C2 witness: one batch holds a sentinel gene and a gene with a numeric,
\* non-zero differential.
C2_Witness ==
    /\ Finished("calculate_differential")
    /\ result.kind = "ok"
    /\ \E g, h \in Range(call.genes) :
          /\ ~result.value[g].isnum
          /\ result.value[h].isnum
          /\ result.value[h].num # 0

\* What the dataset says of one gene, computed from its series alone.
HasBothGroups(gene) ==
    LET samples == Series(gene_expression_values, gene)
    IN  CountStatus(samples, "normal") > 0 /\ CountStatus(samples, "HCC") > 0

\* |mean(HCC) - mean(normal)| of a gene with both groups is AbsNum / AbsDen
AbsNum(gene) ==
    LET samples == Series(gene_expression_values, gene)
    IN  Abs(SumStatus(samples, "HCC") * CountStatus(samples, "normal")
            - SumStatus(samples, "normal") * CountStatus(samples, "HCC"))

AbsDen(gene) ==
    LET samples == Series(gene_expression_values, gene)
    IN  CountStatus(samples, "HCC") * CountStatus(samples, "normal")

\* the gene's absolute differential is at most / exactly the entry's
AtMostEntry(gene, e) == AbsNum(gene) * e[1].den <= e[1].num * AbsDen(gene)
IsEntryOf(gene, e) ==
    /\ e[2] = gene
    /\ AbsNum(gene) * e[1].den = e[1].num * AbsDen(gene)

Names(entries) == {entries[i][2] : i \in 1..Len(entries)}

NonSentinelGenes == {g \in Range(gene_names) : HasBothGroups(g)}

Min(a, b) == IF a < b THEN a ELSE b

\* C3: while top_n(n) streams, the heap has at most n entries and holds the
\* largest absolute differentials of the genes streamed so far; the result
\* has min(n, number of non-sentinel genes) entries and no gene left out has a
\* larger absolute differential than a returned one.  Stated for the files
\* that give every catalog gene a sample.
C3_TopNKeepsLargest ==
    EveryGeneHasSamples =>
    /\ pc = "top_n" =>
          /\ Len(heap) <= call.n
          /\ \A j \in 1..idx :
                gene_names[j] \notin Names(heap) =>
                   \A i \in 1..Len(heap) : AtMostEntry(gene_names[j], heap[i])
    /\ Finished("top_n_differential") =>
          /\ result.kind = "ok"
          /\ Len(result.value) = Min(call.n, Cardinality(NonSentinelGenes))
          /\ \A g \in NonSentinelGenes \ Names(result.value) :
                \A i \in 1..Len(result.value) : AtMostEntry(g, result.value[i])

\* C3, the part about the scan and about the calls that return: the heap
\* never holds more than n entries nor misses a larger streamed gene, and a
\* returned sequence has min(n, number of genes) entries, none smaller than a
\* gene left out.
C3_HeapPart ==
    /\ pc = "top_n" =>
          /\ Len(heap) <= call.n
          /\ \A j \in 1..idx :
                gene_names[j] \notin Names(heap) =>
                   \A i \in 1..Len(heap) : AtMostEntry(gene_names[j], heap[i])
    /\ (Finished("top_n_differential") /\ result.kind = "ok") =>
          /\ Len(result.value) = Min(call.n, Len(gene_names))
          /\ \A g \in Range(gene_names) \ Names(result.value) :
                \A i \in 1..Len(result.value) : AtMostEntry(g, result.value[i])

\* C4: a sequence returned by top_n(n) has at most n entries, in
\* non-increasing order of absolute difference, each the pair (absolute
\* differential, name) of a catalog gene, no gene twice.
C4_TopNSortedBounded ==
    (Finished("top_n_differential") /\ result.kind = "ok") =>
        LET out == result.value
        IN  /\ Len(out) <= call.n
            /\ \A i \in 1..(Len(out) - 1) : ~FracLess(out[i][1], out[i + 1][1])
            /\ \A i \in 1..Len(out) :
                  /\ InCatalog(out[i][2])
                  /\ IsEntryOf(out[i][2], out[i])
            /\ \A i, j \in 1..Len(out) : i # j => out[i][2] # out[j][2]

\* C4 witness: top_n(2) over three genes has returned two entries of
\* different absolute differential after evicting a third gene.
C4_Witness ==
    /\ Finished("top_n_differential")
    /\ result.kind = "ok"
    /\ call.n = 2
    /\ Len(gene_names) = 3
    /\ Len(result.value) = 2
    /\ FracLess(result.value[2][1], result.value[1][1])
    /\ gene_names[3] \in Names(result.value)

\* C5: with a sentinel gene in the catalog top_n(n) still returns, the
\* sentinel genes are not in the result and the other genes are ranked as if
\* the sentinel genes were absent.  Stated for the files that give every
\* catalog gene a sample.
C5_SentinelGenesSkipped ==
    (/\ Finished("top_n_differential")
     /\ EveryGeneHasSamples
     /\ \E g \in Range(gene_names) : ~HasBothGroups(g))
    => (/\ result.kind = "ok"
        /\ Names(result.value) \subseteq NonSentinelGenes
        /\ Len(result.value) = Min(call.n, Cardinality(NonSentinelGenes)))

\* C6: top_n(0) returns the empty sequence, also when the catalog is not
\* empty.  Stated for the datasets in which every catalog gene has both
\* groups, where no sentinel is met on the way.
C6_TopZeroIsEmpty ==
    (/\ Finished("top_n_differential")
     /\ call.n = 0
     /\ \A g \in Range(gene_names) : HasBothGroups(g))
    => (result.kind = "ok" /\ result.value = <<>>)

\* C7: no step of an engine operation changes the dataset: the catalog, the
\* key set of the gene-to-series mapping and every series stay what loading
\* made them.  Stated for the files that give every catalog gene a sample.
C7_StoreNeverChanges ==
    [][(pc # "new" /\ EveryGeneHasSamples)
                => (/\ gene_names' = gene_names
                      /\ gene_expression_values' = gene_expression_values)]_vars

\* C8: expression_above_threshold without names does not fail and its result
\* has one entry for each catalog gene and none for any other name, whatever
\* calls came before.  Stated for the files that give every catalog gene a
\* sample.
C8_CatalogWideCoversCatalog ==
    (/\ Finished("expression_above_threshold")
     /\ EveryGeneHasSamples
     /\ call.gene_names = <<>>)
    => (/\ result.kind = "ok"
        /\ DOMAIN result.value = Range(gene_names))

\* C9: a call that repeats an earlier call (same operation, same arguments)
\* returns what the earlier call returned, whatever calls came in between.
\* Stated for the files that give every catalog gene a sample.
C9_SameCallSameResult ==
    (pc = "done" /\ EveryGeneHasSamples /\ kept.call = call) => result = kept.result

RECURSIVE StrictlyAbove(_, _)
StrictlyAbove(samples, threshold) ==
    IF samples = <<>> THEN <<>>
    ELSE (IF Head(samples)[3] > threshold THEN <<Head(samples)>> ELSE <<>>)
         \o StrictlyAbove(Tail(samples), threshold)

\* C10: for every gene of the result of expression_above_threshold the
\* matches are the gene's sample records of value strictly above the
\* threshold, in the order of the series, each with its sample name and
\* status (and its value rounded to the third decimal).
C10_MatchesAreStrictlyAbove ==
    (Finished("expression_above_threshold") /\ result.kind = "ok") =>
        \A g \in DOMAIN result.value :
            LET expected == StrictlyAbove(Series(gene_expression_values, g),
                                          call.threshold)
                got == IF result.value[g].empty THEN <<>> ELSE result.value[g].info
            IN  /\ Len(got) = Len(expected)
                /\ \A i \in 1..Len(expected) :
                      /\ got[i][1] = expected[i][1]
                      /\ got[i][2] = expected[i][2]
                      /\ got[i][3] % 10 = 0
                      /\ Abs(got[i][3] - expected[i][3]) <= 5

\* C10 witness: a gene's first sample equals the threshold and is dropped,
\* its second sample is above it and is the only match, reported rounded.
C10_Witness ==
    /\ Finished("expression_above_threshold")
    /\ result.kind = "ok"
    /\ \E g \in DOMAIN result.value :
          LET samples == Series(gene_expression_values, g)
          IN  /\ Len(samples) = 2
              /\ samples[1][3] = call.threshold
              /\ samples[2][3] > call.threshold
              /\ ~result.value[g].empty
              /\ Len(result.value[g].info) = 1
              /\ result.value[g].info[1][1] = samples[2][1]
              /\ result.value[g].info[1][3] # samples[2][3]

\* C11: in the result of expression_above_threshold a gene maps to the
\* marker 'No expressions above the threshold.' exactly when none of its
\* samples exceeds the threshold; a structure never has an empty list of
\* matches, and a gene with a passing sample never maps to the marker.
C11_MarkerIffNoMatch ==
    (Finished("expression_above_threshold") /\ result.kind = "ok") =>
        \A g \in DOMAIN result.value :
            LET samples == Series(gene_expression_values, g)
                passes == \E i \in 1..Len(samples) : samples[i][3] > call.threshold
            IN  /\ result.value[g].empty <=> ~passes
                /\ ~result.value[g].empty => Len(result.value[g].info) >= 1

\* C11 witness: one result holds both cases, a gene that has samples but none
\* above the threshold (marker) and a gene with a match (structure).
C11_Witness ==
    /\ Finished("expression_above_threshold")
    /\ result.kind = "ok"
    /\ \E g, h \in DOMAIN result.value :
          /\ Series(gene_expression_values, g) # <<>>
          /\ result.value[g].empty
          /\ ~result.value[h].empty
          /\ Len(result.value[h].info) >= 1

\* C12: for every gene with at least one match in the result of
\* expression_above_threshold, hcc_percentage is 100 times the number of
\* matches of status HCC divided by the number of matches of the gene (as the
\* nearest thousandth of a percent, exact wherever the quotient has three
\* decimals), it lies between 0 and 100 inclusive, and the divisor is never
\* zero.  Percentages are in thousandths of a percent.
C12_HccPercentage ==
    (Finished("expression_above_threshold") /\ result.kind = "ok") =>
        \A g \in DOMAIN result.value :
            ~result.value[g].empty =>
                LET matches == StrictlyAbove(Series(gene_expression_values, g),
                                             call.threshold)
                    total == Len(matches)
                    cases == CountStatus(matches, "HCC")
                    pct == result.value[g].hcc_percentage
                IN  /\ total > 0
                    /\ total = Len(result.value[g].info)
                    /\ 2 * Abs(pct * total - 100000 * cases) <= total
                    /\ (100000 * cases) % total = 0 => pct * total = 100000 * cases
                    /\ pct >= 0
                    /\ pct <= 100000

\* C12 witness: a gene with two matches, one HCC and one normal, reported
\* with 50 percent.
C12_Witness ==
    /\ Finished("expression_above_threshold")
    /\ result.kind = "ok"
    /\ \E g \in DOMAIN result.value :
          /\ ~result.value[g].empty
          /\ Len(result.value[g].info) = 2
          /\ CountStatus(result.value[g].info, "HCC") = 1
          /\ result.value[g].hcc_percentage = 50000

\* C13: expression_above_threshold called with a non-empty gene_names that
\* holds at least one name absent from the catalog fails as a whole with the
\* unknown-gene outcome, naming a requested absent name, and returns no
\* per-gene mapping, in whatever order the set of names is iterated.
C13_ThresholdUnknownGeneFails ==
    (/\ Finished("expression_above_threshold")
     /\ call.gene_names # <<>>
     /\ \E name \in Range(call.gene_names) : ~InCatalog(name)) =>
        /\ result.kind = "NoGeneName"
        /\ result.gene \in Range(call.gene_names)
        /\ ~InCatalog(result.gene)

\* C13 witness: two names were requested, the set yielded the catalog gene
\* first and the absent name last, and the call failed on the absent name.
C13_Witness ==
    /\ Finished("expression_above_threshold")
    /\ Len(call.order) = 2
    /\ InCatalog(call.order[1])
    /\ ~InCatalog(call.order[2])
    /\ result = NoGeneName(call.order[2])

\* Some requested name is a catalog gene with exactly one observation.
HasSingleObservation(genes) ==
    \E name \in Range(genes) :
        InCatalog(name) /\ Len(Series(gene_expression_values, name)) = 1

\* C14 as stated: calculate_statistics on any batch containing a catalog gene
\* with exactly one observation ends in the StatisticsError outcome.
C14_SingleObservationAlwaysRaises ==
    (Finished("calculate_statistics") /\ HasSingleObservation(call.genes)) =>
        result.kind = "StatisticsError"

\* C14 amended: calculate_statistics on a batch of catalog names only that
\* contains a gene with exactly one observation ends in the StatisticsError
\* outcome, which is neither a mapping nor the unknown-gene outcome; and on
\* any batch containing such a gene no mapping is returned, so no standard
\* deviation, 0 or other, is ever reported for that gene.
C14_SingleObservationRaises ==
    (Finished("calculate_statistics") /\ HasSingleObservation(call.genes)) =>
        /\ result.kind # "ok"
        /\ result.kind \in {"StatisticsError", "NoGeneName"}
        /\ result.kind = "NoGeneName" =>
              (result.gene \in Range(call.genes) /\ ~InCatalog(result.gene))
        /\ (\A name \in Range(call.genes) : InCatalog(name)) =>
              result.kind = "StatisticsError"

\* C14 witness: two catalog genes are requested, the first one iterated has
\* two observations and is computed, the second has one and the call raises.
C14_Witness ==
    /\ Finished("calculate_statistics")
    /\ Len(call.order) = 2
    /\ InCatalog(call.order[1])
    /\ InCatalog(call.order[2])
    /\ Len(Series(gene_expression_values, call.order[1])) = 2
    /\ Len(Series(gene_expression_values, call.order[2])) = 1
    /\ result.kind = "StatisticsError"

\* Every requested name is in the catalog.
ValidOnly(genes) == \A name \in Range(genes) : InCatalog(name)

\* C15: for every request made only of catalog names, repeated or not, the
\* mapping calculate_statistics returns, and the one calculate_differential
\* returns, has as its key set exactly the set of the distinct requested
\* names; calculate_differential always returns a mapping for such a request,
\* calculate_statistics returns one or raises StatisticsError.
C15_OneEntryPerDistinctName ==
    /\ (Finished("calculate_differential") /\ ValidOnly(call.genes)) =>
          /\ result.kind = "ok"
          /\ DOMAIN result.value = Range(call.genes)
    /\ (Finished("calculate_statistics") /\ ValidOnly(call.genes)) =>
          /\ result.kind \in {"ok", "StatisticsError"}
          /\ result.kind = "ok" => DOMAIN result.value = Range(call.genes)

\* C15 witness: calculate_statistics was asked for the same catalog gene
\* twice and returned a mapping with the one entry of that gene.
C15_Witness ==
    /\ Finished("calculate_statistics")
    /\ Len(call.genes) = 2
    /\ call.genes[1] = call.genes[2]
    /\ InCatalog(call.genes[1])
    /\ result.kind = "ok"
    /\ DOMAIN result.value = {call.genes[1]}

\* C16: in the named-gene path of expression_above_threshold every requested
\* name is validated before the series of any requested gene is looked up in
\* the store: while some requested name is still to be validated, no series
\* has been looked up for the call.  Stated for files whose every gene has
\* samples.
C16_ValidateAllBeforeLookup ==
    (/\ EveryGeneHasSamples
     /\ pc = "above"
     /\ call.op = "expression_above_threshold"
     /\ call.gene_names # <<>>
     /\ todo # <<>>) =>
        DOMAIN genes_to_iterate = {}

\* Two catalog genes with both groups have the same absolute differential.
Tied(g, h) == AbsNum(g) * AbsDen(h) = AbsNum(h) * AbsDen(g)

\* C17 as stated: of two genes tied in absolute differential the one streamed
\* earlier (earlier in the catalog) is kept in preference to the one streamed
\* later, whatever their names: the result of top_n(n) never holds the later
\* one without the earlier one.  Stated for files in which every gene has
\* both groups.
C17_TiesByStreamingOrder ==
    (/\ Finished("top_n_differential")
     /\ result.kind = "ok"
     /\ \A g \in Range(gene_names) : HasBothGroups(g)) =>
        \A i, j \in 1..Len(gene_names) :
            (/\ i < j
             /\ Tied(gene_names[i], gene_names[j])
             /\ gene_names[j] \in Names(result.value)) =>
                gene_names[i] \in Names(result.value)

\* The entry of a non-empty heap that is least as a pair: least value, and
\* among the entries of that value the least gene name.
LeastEntry(h) ==
    CHOOSE e \in Range(h) :
        \A f \in Range(h) :
            \/ f = e
            \/ e[1].num * f[1].den < f[1].num * e[1].den
            \/ (e[1].num * f[1].den = f[1].num * e[1].den /\ NameLess(e[2], f[2]))

\* C17 amended: when a gene is streamed into a full heap of top_n(n), n > 0,
\* it is admitted only if its absolute differential is strictly greater than
\* the least value in the heap (so a gene that ties with the least value is
\* left out in favour of the genes admitted earlier), and the gene it then
\* displaces is, among the heap's entries of least value, the one with the
\* least gene name, whatever the order in which those were streamed.
C17_TiesByNameInHeap ==
    [][(/\ pc = "top_n"
        /\ idx' = idx + 1
        /\ call.n > 0
        /\ Len(heap) = call.n) =>
           LET gene == gene_names[idx + 1]
               least == LeastEntry(heap)
           IN  IF AbsNum(gene) * least[1].den > least[1].num * AbsDen(gene)
               THEN Names(heap') = (Names(heap) \ {least[2]}) \cup {gene}
               ELSE heap' = heap]_vars

\* C17 witness: top_n(2) over three genes, the first two tied and the first
\* of the lesser name, the third greater: the gene streamed first was
\* displaced and the one streamed second is in the result.
C17_Witness ==
    /\ Finished("top_n_differential")
    /\ result.kind = "ok"
    /\ call.n = 2
    /\ Len(gene_names) = 3
    /\ \A g \in Range(gene_names) : HasBothGroups(g)
    /\ Tied(gene_names[1], gene_names[2])
    /\ NameLess(gene_names[1], gene_names[2])
    /\ AbsNum(gene_names[3]) * AbsDen(gene_names[1])
          > AbsNum(gene_names[1]) * AbsDen(gene_names[3])
    /\ Names(result.value) = {gene_names[2], gene_names[3]}

====
